---- MODULE Spec2Model ----
(***************************************************************************)
(* State-machine model of the iap_vault program (programs/iap_vault/src/   *)
(* lib.rs): the instructions store_interest_profile and store_tier, the    *)
(* account constraints of their contexts, and the field codec              *)
(* (bytes_to_field, to_le_bytes, the nonce narrowing).                     *)
(*                                                                         *)
(* Sizes.  TLC's integers are 32 bits wide, so the field is scaled: a      *)
(* "byte" has ByteBase values (256 in the program), a block has BlockLen   *)
(* bytes (32), a nonce has NonceLen bytes (16) and the base field has      *)
(* FieldPrime elements (the prime p of ArcisCiphertext).  What the model   *)
(* keeps of the real sizes: FieldPrime < ByteBase^BlockLen (an element has *)
(* a BlockLen-byte little-endian form, and, p being prime, some blocks are *)
(* not the form of any element) and NonceLen < BlockLen.  The number of    *)
(* profile fields, the output-length threshold and the account sizes are   *)
(* the program's own.                                                      *)
(*                                                                         *)
(* The confidential-computation engine (EncData::from_values,              *)
(* to_arcis_with_pubkey_and_nonce, Mxe::from_arcis, handle_outputs) is     *)
(* external: its output sequence is a nondeterministic input of the        *)
(* action, drawn from a bounded family that contains the identity stub.    *)
(* A failed instruction aborts its transaction: the runtime discards every *)
(* account change, the creation by init_if_needed included.                *)
(***************************************************************************)
EXTENDS Integers, Sequences, FiniteSets, TLC

\* ---- sizes of the scaled field and bounds of the explored inputs ----
ByteBase == 4
BlockLen == 2
NonceLen == 1
FieldPrime == 13
NumInputs == 3
MaxOutputs == 8

\* ---- program constants ----
NumFields == 6
MinOutputs == 7
StoreInterestProfileSpace == 8 + 16 + (32 * 6)
StoreTierSpace == 8 + 32 + 32 + 16

RECURSIVE Pow(_, _)
Pow(b, n) == IF n = 0 THEN 1 ELSE b * Pow(b, n - 1)

\* The callers, by their public keys.
Users == {"alice", "bob"}
Byte == 0..(ByteBase - 1)
NumBlocks == Pow(ByteBase, BlockLen)
Field == 0..(FieldPrime - 1)

\* ---- field arithmetic of ArcisCiphertext (BaseField) ----
FieldFrom(n) == n % FieldPrime
FieldAdd(a, b) == (a + b) % FieldPrime
FieldMul(a, b) == (a * b) % FieldPrime

\* The little-endian byte form of a field element, BlockLen bytes long.
to_le_bytes(f) == [j \in 1..BlockLen |-> (f \div Pow(ByteBase, j - 1)) % ByteBase]

\* u128::from_le_bytes, on a NonceLen-byte array.
RECURSIVE from_le_bytes(_)
from_le_bytes(arr) ==
    IF Len(arr) = 0 THEN 0 ELSE Head(arr) + ByteBase * from_le_bytes(Tail(arr))

\* bytes_to_field: x = x + from(b) * factor; factor = factor * 256, per byte.
RECURSIVE bytes_to_field_loop(_, _, _, _)
bytes_to_field_loop(s, i, x, factor) ==
    IF i > Len(s) THEN x
    ELSE bytes_to_field_loop(s, i + 1,
                             FieldAdd(x, FieldMul(FieldFrom(s[i]), factor)),
                             FieldMul(factor, FieldFrom(ByteBase)))

bytes_to_field_be(s) ==
    bytes_to_field_loop([j \in 1..Len(s) |-> s[Len(s) + 1 - j]], 1, FieldFrom(0), FieldFrom(1))

bytes_to_field(s) == bytes_to_field_loop(s, 1, FieldFrom(0), FieldFrom(1))

\* ---- EvalValue ----
Base(f) == [kind |-> "Base", val |-> f]
Other(f) == [kind |-> "Other", val |-> f]

\* ---- the stored value ----
ZeroBlock == [j \in 1..BlockLen |-> 0]
MXEWrapper(nonce, ciphertexts) == [nonce |-> nonce, ciphertexts |-> ciphertexts]
\* The content of a freshly created (zero-filled) account.
ZeroProfile == MXEWrapper(0, [i \in 1..NumFields |-> ZeroBlock])
UserProfile(space, interest_profile) ==
    [space |-> space, interest_profile |-> interest_profile]

\* ---- addresses ----
\* seeds = [b"user_profile", user.key()]: the address is a function of the
\* tag and the user's key alone.
find_program_address(tag, key) == <<tag, key>>
StateAddress(user) == find_program_address("user_profile", user)

VARIABLES
    accounts,      \* address -> UserProfile, for the accounts that exist
    instruction,   \* the last instruction run: "none", "store_interest_profile", "store_tier"
    signer,        \* its caller
    input,         \* its argument (the ciphertext blocks of the SharedEncryptedStruct)
    outputs,       \* the engine's output sequence in that call
    created,       \* whether init_if_needed created the account in that call
    result         \* "Ok" or the error returned

vars == <<accounts, instruction, signer, input, outputs, created, result>>

\* ---- the explored inputs ----
BlockOf(v) == [j \in 1..BlockLen |-> (v \div Pow(ByteBase, j - 1)) % ByteBase]

\* A SharedEncryptedStruct<LEN>, by its ciphertext blocks.  The encryption
\* key and the nonce of the struct go to the engine only.
SharedEncryptedStruct(len, a) ==
    [ciphertexts |-> [i \in 1..len |-> BlockOf((a + i * NumInputs) % NumBlocks)]]

ProfileInputs == {SharedEncryptedStruct(NumFields, a) : a \in 0..(NumInputs - 1)}
TierInputs == {SharedEncryptedStruct(1, a) : a \in 0..1}

\* An engine behaviour: the identity stub (the ciphertext fields it is given
\* come back unchanged) or a lift whose output does not depend on its input;
\* len elements come out, the bad-th of them (if any) not a Base value.
Engine(stub, nonce, c, len, bad) ==
    [stub |-> stub, nonce |-> nonce, c |-> c, len |-> len, bad |-> bad]

NonceSamples == {FieldFrom(1), FieldFrom(1 + Pow(ByteBase, NonceLen))}
StubEngine == Engine(TRUE, FieldFrom(2 + Pow(ByteBase, NonceLen)), 0, MinOutputs, 0)
LiftEngines ==
    {Engine(FALSE, n, c, MinOutputs, 0) : n \in NonceSamples, c \in {1, NumFields}}
ShortEngines == {Engine(FALSE, FieldFrom(1), 1, l, 0) : l \in {0, 1, MinOutputs - 1}}
LongEngines == {Engine(FALSE, FieldFrom(1), 1, l, 0) : l \in (MinOutputs + 1)..MaxOutputs}
BadEngines ==
    {Engine(FALSE, FieldFrom(1), 1, MinOutputs, b) : b \in 1..MinOutputs}
    \cup {Engine(FALSE, FieldFrom(1), 1, l, l) : l \in (MinOutputs + 1)..MaxOutputs}

ProfileCalls ==
    {<<p, StubEngine>> : p \in ProfileInputs}
    \cup {<<SharedEncryptedStruct(NumFields, 0), e>> :
             e \in LiftEngines \cup ShortEngines \cup LongEngines \cup BadEngines}

\* ---- store_interest_profile, step by step ----
\* 1. the input blocks as field values
enc_data_values(encrypted_profile) ==
    [i \in 1..Len(encrypted_profile.ciphertexts) |->
        Base(bytes_to_field(encrypted_profile.ciphertexts[i]))]

\* 2.-4. the engine: decrypt, re-encrypt for the vault, handle_outputs
handle_outputs(fields, e) ==
    [k \in 1..e.len |->
        LET f == IF k = 1 THEN e.nonce
                 ELSE IF e.stub /\ k - 1 <= Len(fields) THEN fields[k - 1].val
                 ELSE FieldFrom(e.c + k - 1)
        IN  IF k = e.bad /\ k <= e.len THEN Other(f) ELSE Base(f)]

\* the format check on the output length
ShapeOkLoose(outs) == ~(Len(outs) < NumFields)

ShapeOk(outs) == ~(Len(outs) < MinOutputs)

\* the nonce: the first 16 bytes of to_le_bytes, as a little-endian u128
NonceOfHigh(nonce_field) ==
    from_le_bytes(SubSeq(to_le_bytes(nonce_field), BlockLen - NonceLen + 1, BlockLen))

NonceOf(nonce_field) ==
    from_le_bytes(SubSeq(to_le_bytes(nonce_field), 1, NonceLen))

\* outputs.iter().skip(1)
SkipNone(outs) == outs

SkipNonce(outs) == Tail(outs)

\* the loop over the ciphertext outputs: rest is what the iterator still
\* holds, i the index enumerate() gives its head
RECURSIVE extract_ciphertexts_lenient(_, _, _)
extract_ciphertexts_lenient(rest, i, ciphertexts) ==
    IF Len(rest) = 0 \/ i >= NumFields
    THEN [err |-> FALSE, ciphertexts |-> ciphertexts]
    ELSE IF Head(rest).kind = "Base"
    THEN extract_ciphertexts_lenient(Tail(rest), i + 1,
             [ciphertexts EXCEPT ![i + 1] = SubSeq(to_le_bytes(Head(rest).val), 1, BlockLen)])
    ELSE extract_ciphertexts_lenient(Tail(rest), i + 1, ciphertexts)

RECURSIVE extract_ciphertexts(_, _, _)
extract_ciphertexts(rest, i, ciphertexts) ==
    IF Len(rest) = 0 \/ i >= NumFields
    THEN [err |-> FALSE, ciphertexts |-> ciphertexts]
    ELSE IF Head(rest).kind = "Base"
    THEN extract_ciphertexts(Tail(rest), i + 1,
             [ciphertexts EXCEPT ![i + 1] = SubSeq(to_le_bytes(Head(rest).val), 1, BlockLen)])
    ELSE [err |-> TRUE, ciphertexts |-> ciphertexts]

\* The body from the format check to the return: the status, and the value
\* assigned to state.interest_profile when the status is Ok.
decode_outputs(outs, old) ==
    IF ~ShapeOk(outs) THEN [result |-> "InvalidAccountData", value |-> old]
    ELSE IF outs[1].kind # "Base" THEN [result |-> "InvalidAccountData", value |-> old]
    ELSE LET nonce == NonceOf(outs[1].val)
             cts == extract_ciphertexts(SkipNonce(outs), 0,
                                        [i \in 1..NumFields |-> ZeroBlock])
         IN  IF cts.err THEN [result |-> "InvalidAccountData", value |-> old]
             ELSE [result |-> "Ok", value |-> MXEWrapper(nonce, cts.ciphertexts)]

\* ---- the account constraint of both contexts ----
\* init_if_needed, payer = user, space, seeds, bump: the account is created
\* zero-filled with the given space when it does not exist; one that exists
\* must have that space.
init_always(accts, addr, space) ==
    IF addr \notin DOMAIN accts
    THEN [err |-> "Ok", created |-> TRUE,
          accounts |-> (addr :> UserProfile(space, ZeroProfile)) @@ accts]
    ELSE [err |-> "AccountAlreadyInUse", created |-> FALSE, accounts |-> accts]

init_if_needed(accts, addr, space) ==
    IF addr \notin DOMAIN accts
    THEN [err |-> "Ok", created |-> TRUE,
          accounts |-> (addr :> UserProfile(space, ZeroProfile)) @@ accts]
    ELSE IF accts[addr].space # space
    THEN [err |-> "ConstraintSpace", created |-> FALSE, accounts |-> accts]
    ELSE [err |-> "Ok", created |-> FALSE, accounts |-> accts]

\* ---- the instructions ----
Init ==
    /\ accounts = <<>>
    /\ instruction = "none"
    /\ signer = "alice"
    /\ input = [ciphertexts |-> <<>>]
    /\ outputs = <<>>
    /\ created = FALSE
    /\ result = "none"

store_interest_profile(user, encrypted_profile, engine) ==
    LET addr == StateAddress(user)
        ctx == init_if_needed(accounts, addr, StoreInterestProfileSpace)
        outs == handle_outputs(enc_data_values(encrypted_profile), engine)
        h == decode_outputs(outs, ctx.accounts[addr].interest_profile)
        res == IF ctx.err # "Ok" THEN ctx.err ELSE h.result
    IN  /\ instruction' = "store_interest_profile"
        /\ signer' = user
        /\ input' = encrypted_profile
        /\ outputs' = IF ctx.err = "Ok" THEN outs ELSE <<>>
        /\ created' = (res = "Ok" /\ ctx.created)
        /\ result' = res
        /\ accounts' = IF res = "Ok"
                       THEN [ctx.accounts EXCEPT ![addr].interest_profile = h.value]
                       ELSE accounts

store_tier(user, encrypted_tier) ==
    LET addr == StateAddress(user)
        ctx == init_if_needed(accounts, addr, StoreTierSpace)
        res == ctx.err
    IN  /\ instruction' = "store_tier"
        /\ signer' = user
        /\ input' = encrypted_tier
        /\ outputs' = <<>>
        /\ created' = (res = "Ok" /\ ctx.created)
        /\ result' = res
        /\ accounts' = IF res = "Ok" THEN ctx.accounts ELSE accounts

Next ==
    \/ \E user \in Users, call \in ProfileCalls :
          store_interest_profile(user, call[1], call[2])
    \/ \E user \in Users, encrypted_tier \in TierInputs :
          store_tier(user, encrypted_tier)

Spec == Init /\ [][Next]_vars

TypeOK ==
    /\ DOMAIN accounts \subseteq {StateAddress(u) : u \in Users}
    /\ signer \in Users
    /\ created \in BOOLEAN
    /\ result \in {"none", "Ok", "InvalidAccountData", "ConstraintSpace"}
    /\ instruction \in {"none", "store_interest_profile", "store_tier"}

\* ======================= properties =======================
\* The value a little-endian byte block b of n bytes stands for.
RECURSIVE LittleEndianValue(_, _)
LittleEndianValue(b, n) ==
    IF n = 0 THEN 0 ELSE LittleEndianValue(b, n - 1) + b[n] * Pow(ByteBase, n - 1)

IsBlock(b) == DOMAIN b = 1..BlockLen /\ \A j \in 1..BlockLen : b[j] \in Byte

\* What is persisted for a user: the record's content, or the initial
\* (zero) content when the user has no record.
Stored(accts, u) ==
    IF StateAddress(u) \in DOMAIN accts
    THEN accts[StateAddress(u)].interest_profile
    ELSE ZeroProfile

HasRecord(u) == StateAddress(u) \in DOMAIN accounts

\* v is the complete value of the output sequence outs: the nonce of its
\* first element and the six blocks of the next six.
CompleteValue(v, outs) ==
    /\ Len(outs) >= MinOutputs
    /\ \A k \in 1..MinOutputs : outs[k].kind = "Base"
    /\ v.nonce = outs[1].val % Pow(ByteBase, NonceLen)
    /\ DOMAIN v.ciphertexts = 1..NumFields
    /\ \A i \in 1..NumFields :
          /\ IsBlock(v.ciphertexts[i])
          /\ LittleEndianValue(v.ciphertexts[i], BlockLen) = outs[i + 1].val

ProfileCallDone == instruction = "store_interest_profile"
ProfileCallOk == instruction = "store_interest_profile" /\ result = "Ok"

\* C1: a store_interest_profile call whose engine output has fewer than 7
\* elements returns an error and leaves every account as it was.
C1_ShortOutputRejected ==
    [][(instruction' = "store_interest_profile" /\ Len(outputs') < MinOutputs)
          => (result' # "Ok" /\ accounts' = accounts)]_vars

\* C1 witness: an output of length 6 was rejected by the format check while
\* the caller had a record holding an earlier result.
C1_Witness ==
    /\ ProfileCallDone
    /\ Len(outputs) = MinOutputs - 1
    /\ result = "InvalidAccountData"
    /\ HasRecord(signer)
    /\ Stored(accounts, signer) # ZeroProfile

\* C2 (as claimed): a store_interest_profile call whose engine output does
\* not have exactly 7 elements fails and stores nothing.
C2_WrongCountRejected ==
    [][(instruction' = "store_interest_profile" /\ Len(outputs') # MinOutputs)
          => (result' # "Ok" /\ accounts' = accounts)]_vars

\* C3: a step is either a successful store_interest_profile call, after
\* which the caller's record holds exactly the complete value of that call's
\* output and nobody else's changed, or it changes no persisted ciphertext.
C3_AllOrNothing ==
    [][IF instruction' = "store_interest_profile" /\ result' = "Ok"
       THEN /\ CompleteValue(Stored(accounts', signer'), outputs')
            /\ \A u \in Users \ {signer'} : Stored(accounts', u) = Stored(accounts, u)
       ELSE \A u \in Users : Stored(accounts', u) = Stored(accounts, u)]_vars

\* C3 witness: a call failed inside the ciphertext loop (a later element was
\* not a Base value) while the record held an earlier call's value.
C3_Witness ==
    /\ ProfileCallDone
    /\ result = "InvalidAccountData"
    /\ Len(outputs) >= MinOutputs
    /\ outputs[1].kind = "Base"
    /\ \E k \in 2..MinOutputs : outputs[k].kind # "Base"
    /\ Stored(accounts, signer) # ZeroProfile

\* C4: after a successful store_interest_profile call the i-th stored block
\* is the little-endian form of the (i+1)-th output element, i = 1..6.
C4_BlocksFollowNonce ==
    ProfileCallOk =>
        LET v == Stored(accounts, signer)
        IN  /\ HasRecord(signer)
            /\ DOMAIN v.ciphertexts = 1..NumFields
            /\ \A i \in 1..NumFields :
                  /\ outputs[i + 1].kind = "Base"
                  /\ IsBlock(v.ciphertexts[i])
                  /\ LittleEndianValue(v.ciphertexts[i], BlockLen) = outputs[i + 1].val

\* C4 witness: a successful call whose six ciphertext outputs are non-zero,
\* pairwise different and different from the nonce element.
C4_Witness ==
    /\ ProfileCallOk
    /\ \A i \in 2..MinOutputs : outputs[i].val # 0 /\ outputs[i].val # outputs[1].val
    /\ \A i, j \in 2..MinOutputs : i # j => outputs[i].val # outputs[j].val

\* The engine returned the ciphertext fields it was given (identity stub).
IdentityStubRun ==
    /\ ProfileCallOk
    /\ Len(outputs) = MinOutputs
    /\ \A i \in 1..NumFields :
          outputs[i + 1] = Base(bytes_to_field(input.ciphertexts[i]))

\* C5 (as claimed): with the identity stub every input block reappears
\* unchanged at its position in the stored record.
C5_RoundTripAllBlocks ==
    IdentityStubRun =>
        \A i \in 1..NumFields :
            Stored(accounts, signer).ciphertexts[i] = input.ciphertexts[i]

\* C5 (amended): with the identity stub, an input block whose little-endian
\* value is below the field prime reappears unchanged at its position, and
\* any input block reappears as the block of its value reduced mod the prime.
C5_RoundTripCanonical ==
    IdentityStubRun =>
        \A i \in 1..NumFields :
            LET b == input.ciphertexts[i]
                c == Stored(accounts, signer).ciphertexts[i]
            IN  /\ LittleEndianValue(b, BlockLen) < FieldPrime => c = b
                /\ IsBlock(c)
                /\ LittleEndianValue(c, BlockLen) = LittleEndianValue(b, BlockLen) % FieldPrime

\* C5 witness: an identity-stub run whose input has a block below the prime
\* with a non-zero high byte and a block at or above the prime.
C5_Witness ==
    /\ IdentityStubRun
    /\ \E i \in 1..NumFields :
          /\ LittleEndianValue(input.ciphertexts[i], BlockLen) < FieldPrime
          /\ input.ciphertexts[i][BlockLen] # 0
    /\ \E i \in 1..NumFields :
          LittleEndianValue(input.ciphertexts[i], BlockLen) >= FieldPrime

\* C6: a store_interest_profile call finds a record of the full size when
\* there is one (no account error, nothing created); a successful call
\* leaves one record at the caller's address, created by this call exactly
\* when there was none, of the full size and holding this call's value; no
\* call touches or creates a record at another address.
C6_OneRecordPerUser ==
    [][instruction' = "store_interest_profile" =>
          LET addr == StateAddress(signer')
          IN  /\ (addr \in DOMAIN accounts
                    /\ accounts[addr].space = StoreInterestProfileSpace)
                 => (result' \in {"Ok", "InvalidAccountData"} /\ ~created')
              /\ result' = "Ok" =>
                    /\ DOMAIN accounts' = DOMAIN accounts \cup {addr}
                    /\ created' = (addr \notin DOMAIN accounts)
                    /\ accounts'[addr].space = StoreInterestProfileSpace
                    /\ CompleteValue(accounts'[addr].interest_profile, outputs')
              /\ DOMAIN accounts' \subseteq DOMAIN accounts \cup {addr}
              /\ \A a \in DOMAIN accounts \ {addr} : accounts'[a] = accounts[a]]_vars

\* C6 witness: a successful call that found the record an earlier call had
\* created and replaced its content.
C6_Witness ==
    /\ ProfileCallOk
    /\ ~created
    /\ Cardinality(DOMAIN accounts) = 1
    /\ Stored(accounts, signer) # ZeroProfile

\* C7 (as claimed): a store_interest_profile call whose engine output has an
\* element that is not a Base value returns an error and changes no account.
C7_NonBaseRejected ==
    [][(instruction' = "store_interest_profile"
          /\ \E k \in 1..Len(outputs') : outputs'[k].kind # "Base")
          => (result' # "Ok" /\ accounts' = accounts)]_vars

\* C8 (as claimed): a store_tier call that reports success has lifted its
\* one block (a nonce and one ciphertext field came out of the engine) and
\* persisted the result in the caller's record.
C8_StoreTierStores ==
    (instruction = "store_tier" /\ result = "Ok") =>
        /\ Len(outputs) = 2
        /\ HasRecord(signer)
        /\ Stored(accounts, signer).nonce = outputs[1].val % Pow(ByteBase, NonceLen)
        /\ LittleEndianValue(Stored(accounts, signer).ciphertexts[1], BlockLen)
              = outputs[2].val

\* C9: after a successful store_interest_profile call the stored nonce is
\* the value of the low NonceLen bytes of the first output element, and any
\* field element with the same low bytes narrows to the same nonce.
C9_NonceLowBytes ==
    ProfileCallOk =>
        /\ HasRecord(signer)
        /\ Stored(accounts, signer).nonce = outputs[1].val % Pow(ByteBase, NonceLen)
        /\ \A f \in Field :
              f % Pow(ByteBase, NonceLen) = outputs[1].val % Pow(ByteBase, NonceLen)
                 => NonceOf(f) = Stored(accounts, signer).nonce

\* C9 witness: a successful call whose first output element has a non-zero
\* byte above the low NonceLen bytes, so the stored nonce is not its value.
C9_Witness ==
    /\ ProfileCallOk
    /\ outputs[1].val >= Pow(ByteBase, NonceLen)
    /\ Stored(accounts, signer).nonce # outputs[1].val
    /\ Stored(accounts, signer).nonce # 0

\* C10 (as claimed): every record that exists has a reserved space of
\* 8 + 208 bytes.
C10_SpaceIs216 ==
    \A a \in DOMAIN accounts : accounts[a].space = 8 + 208

====
